---- MODULE Spec2Model ----
(***************************************************************************)
(* Station TV report assembly: the timed-text parser, the per-item HTML    *)
(* report (HTMLTranscriptionReporter) and the QoS text summary             *)
(* (QoSReporter), modelled from export/html_reporter.py and                *)
(* qos/reporter.py.                                                        *)
(*                                                                         *)
(* Text is a sequence of one-character strings, so that strip, split and   *)
(* join are computed as Python computes them.                              *)
(***************************************************************************)
EXTENDS Integers, Sequences, FiniteSets, TLC

VARIABLES
    srtFile,      \* the subtitle file given to _parse_srt_file
    segments,     \* what _parse_srt_file returned
    srtLogged,    \* what _parse_srt_file logged: "none", "info" or "error"
    srtPc,        \* "ready" before the call, "done" after it
    qosMetrics,   \* the metrics_summary dictionary given to generate_summary_report
    qosDisk,      \* the output device: what mkdir, open and write will meet
    qosOut,       \* the summary file at the output path
    qosRet,       \* what generate_summary_report returned ("none" before the call)
    qosPc,        \* "ready" before the call, "done" after it
    repDir,       \* the transcription directory generate_report is pointed at
    repDisk,      \* the device of the report's output path
    repPrior,     \* the output file as it was before the call
    repOut,       \* the output file
    repRet,       \* what generate_report returned ("none" before the call)
    repReads,     \* the input files the call opened
    repPc,        \* "ready" before the call, "done" after it
    batchItems,   \* the items of a batch: each its directory, device and old output
    batchFs,      \* the output files of the batch, by path
    batchResults, \* the values generate_report returned, one per item processed
    batchAborted, \* an exception left generate_report and ended the batch
    plotCalls,    \* the chart calls under way: each its method, CSV, device, old output
    plotPc,       \* where each chart call stands
    plotDf,       \* each call's DataFrame (its local df)
    plotFig,      \* the figure each call created (its local fig, ax1, ax2)
    pltFigures,   \* every Figure object created, by number: what is drawn on it
    pltOpen,      \* pyplot's registry of open figures; the last is the current one
    plotOut,      \* the image file at each call's output path
    plotRet       \* what each chart call returned ("none" until it returns)

srtVars == <<srtFile, segments, srtLogged, srtPc>>

qosVars == <<qosMetrics, qosDisk, qosOut, qosRet, qosPc>>

repVars == <<repDir, repDisk, repPrior, repOut, repRet, repReads, repPc>>

batchVars == <<batchItems, batchFs, batchResults, batchAborted>>

plotVars == <<plotCalls, plotPc, plotDf, plotFig, pltFigures, pltOpen, plotOut, plotRet>>

vars == <<srtFile, segments, srtLogged, srtPc,
          qosMetrics, qosDisk, qosOut, qosRet, qosPc,
          repDir, repDisk, repPrior, repOut, repRet, repReads, repPc,
          batchItems, batchFs, batchResults, batchAborted,
          plotCalls, plotPc, plotDf, plotFig, pltFigures, pltOpen, plotOut, plotRet>>

----------------------------------------------------------------------------
(* Text primitives (Python str.strip, str.split, str.join).                *)

NL == "\n"

\* The characters str.strip() removes, among those the model writes.
IsSpace(c) == c \in {" ", NL, "\t"}

RECURSIVE LStrip(_)
LStrip(s) ==
    IF s = <<>> THEN <<>>
    ELSE IF IsSpace(Head(s)) THEN LStrip(Tail(s))
    ELSE s

RECURSIVE RStrip(_)
RStrip(s) ==
    IF s = <<>> THEN <<>>
    ELSE IF IsSpace(s[Len(s)]) THEN RStrip(SubSeq(s, 1, Len(s) - 1))
    ELSE s

Strip(s) == RStrip(LStrip(s))

\* s.split(sep): leftmost, non-overlapping occurrences of sep; always at
\* least one piece (''.split(sep) is ['']).
RECURSIVE SplitAcc(_, _, _)
SplitAcc(s, sep, cur) ==
    IF Len(s) < Len(sep) THEN <<cur \o s>>
    ELSE IF SubSeq(s, 1, Len(sep)) = sep
         THEN <<cur>> \o SplitAcc(SubSeq(s, Len(sep) + 1, Len(s)), sep, <<>>)
         ELSE SplitAcc(Tail(s), sep, Append(cur, Head(s)))

Split(s, sep) == SplitAcc(s, sep, <<>>)

\* sep.join(parts)
RECURSIVE Join(_, _)
Join(parts, sep) ==
    IF parts = <<>> THEN <<>>
    ELSE IF Len(parts) = 1 THEN parts[1]
    ELSE parts[1] \o sep \o Join(Tail(parts), sep)

----------------------------------------------------------------------------
(* Output files. A file is absent or holds a sequence of written pieces;   *)
(* the device takes `space` pieces before a write fails.                   *)

AbsentFile == [exists |-> FALSE, data |-> <<>>]

OldFile == [exists |-> TRUE, data |-> <<"old">>]

\* open(path, 'w') followed by the writes of `pieces`, on `disk`, over the
\* file `prior`: the file left behind and whether an exception was raised.
\* open fails without touching the file when the parent directory is missing
\* or the path is not writable; once it succeeds the file is truncated, and
\* a device that runs out of space leaves the pieces it took.
WriteFile(prior, pieces, disk) ==
    IF ~disk.parent \/ ~disk.writable
    THEN [file |-> prior, raised |-> TRUE]
    ELSE IF Len(pieces) <= disk.space
    THEN [file |-> [exists |-> TRUE, data |-> pieces], raised |-> FALSE]
    ELSE [file |-> [exists |-> TRUE, data |-> SubSeq(pieces, 1, disk.space)],
          raised |-> TRUE]

----------------------------------------------------------------------------
(* Each component at rest: the value its variables keep in a specification *)
(* that runs another component.                                            *)

\* The parser before any call, on a file that holds nothing.
SrtIdle ==
    /\ srtFile = [readable |-> TRUE, content |-> <<>>]
    /\ segments = <<>>
    /\ srtLogged = "none"
    /\ srtPc = "ready"

\* The summary writer before any call.
QosIdle ==
    /\ qosMetrics = [throughput |-> 0]
    /\ qosDisk = [parent |-> TRUE, mkdir |-> TRUE, writable |-> TRUE, space |-> 0]
    /\ qosOut = AbsentFile
    /\ qosRet = "none"
    /\ qosPc = "ready"

\* A monitoring CSV, a chart image, a transcript that is not there.
CsvAbsent == [exists |-> FALSE, parses |-> FALSE, columns |-> {}, rows |-> <<>>]

ImageAbsent == [exists |-> FALSE, readable |-> FALSE]

TxtAbsent == [exists |-> FALSE, decodable |-> FALSE, text |-> <<>>]

SrtAbsent == [exists |-> FALSE, file |-> [readable |-> FALSE, content |-> <<>>]]

EmptyDir ==
    [txt |-> TxtAbsent, srt |-> SrtAbsent,
     cpu |-> CsvAbsent, memory |-> CsvAbsent, power |-> CsvAbsent,
     images |-> <<ImageAbsent, ImageAbsent, ImageAbsent>>]

\* The report generator before any call, on an empty directory.
RepIdle ==
    /\ repDir = EmptyDir
    /\ repDisk = [parent |-> TRUE, mkdir |-> FALSE, writable |-> TRUE, space |-> 0]
    /\ repPrior = AbsentFile
    /\ repOut = AbsentFile
    /\ repRet = "none"
    /\ repReads = {}
    /\ repPc = "ready"

\* No batch under way.
BatchIdle ==
    /\ batchItems = <<>>
    /\ batchFs = <<>>
    /\ batchResults = <<>>
    /\ batchAborted = FALSE

\* No chart call under way and no figure in pyplot.
PlotIdle ==
    /\ plotCalls = <<>>
    /\ plotPc = <<>>
    /\ plotDf = <<>>
    /\ plotFig = <<>>
    /\ pltFigures = <<>>
    /\ pltOpen = <<>>
    /\ plotOut = <<>>
    /\ plotRet = <<>>

----------------------------------------------------------------------------
(* QoSReporter.generate_summary_report. Throughput is in tenths (49 is     *)
(* 4.9x real time), the success rate in thousandths (990 is 0.99).         *)

FastTier == 5

SlowTier == 1

SuccessTargetPercent == 99

\* metrics_summary.get(key, 0)
MetricGet(metrics, key) == IF key \in DOMAIN metrics THEN metrics[key] ELSE 0

\* A mutation of the tier tests: the slow tier is tested first.
ThroughputLineSlowFirst(throughput) ==
    IF throughput >= SlowTier * 10 THEN [line |-> "throughput_medium_met"]
    ELSE IF throughput >= FastTier * 10 THEN [line |-> "throughput_small_met"]
    ELSE [line |-> "throughput_insufficient"]

\* if throughput >= 5 ... elif throughput >= 1 ... else ...
ThroughputLine(throughput) ==
    IF throughput >= FastTier * 10 THEN [line |-> "throughput_small_met"]
    ELSE IF throughput >= SlowTier * 10 THEN [line |-> "throughput_medium_met"]
    ELSE [line |-> "throughput_insufficient"]

\* if success_rate >= 0.99 ... else the rate as a percentage with one decimal
\* (success_rate*100:.1f; a rate in thousandths is that percentage in tenths).
SuccessLine(success_rate) ==
    IF success_rate >= SuccessTargetPercent * 10
    THEN [line |-> "success_rate_met"]
    ELSE [line |-> "success_rate_below", percent_tenths |-> success_rate]

\* A mutation of the section: the success rate is evaluated only when the
\* throughput target is missed.
QosObjectivesSuccessInElse(metrics) ==
    LET t == ThroughputLine(MetricGet(metrics, "throughput"))
    IN  IF t.line = "throughput_insufficient"
        THEN <<t, SuccessLine(MetricGet(metrics, "success_rate"))>>
        ELSE <<t>>

\* The two evaluations of the "OBJECTIFS QoS" section.
QosObjectives(metrics) ==
    << ThroughputLine(MetricGet(metrics, "throughput")),
       SuccessLine(MetricGet(metrics, "success_rate")) >>

\* Every f.write of the method, in order.
SummaryLines(metrics) ==
    << [line |-> "rule"], [line |-> "title"], [line |-> "rule"],
       [line |-> "session_heading"], [line |-> "dashes"],
       [line |-> "session_duration"], [line |-> "total_files"],
       [line |-> "successful_files"], [line |-> "failed_files"],
       [line |-> "success_rate", percent_tenths |-> MetricGet(metrics, "success_rate")],
       [line |-> "performance_heading"], [line |-> "dashes"],
       [line |-> "total_audio_duration"], [line |-> "total_processing_time"],
       [line |-> "throughput", tenths |-> MetricGet(metrics, "throughput")],
       [line |-> "average_processing_time"],
       [line |-> "qos_heading"], [line |-> "dashes"] >>
    \o QosObjectives(metrics)
    \o << [line |-> "rule"] >>

\* The method: mkdir of the parent (parents=True, exist_ok=True), then the
\* file opened and written; any exception is caught and False returned.
GenerateSummaryReport(metrics, prior, disk) ==
    IF ~disk.parent /\ ~disk.mkdir
    THEN [ret |-> FALSE, file |-> prior, parent |-> FALSE]
    ELSE LET w == WriteFile(prior, SummaryLines(metrics),
                            [disk EXCEPT !.parent = TRUE])
         IN  [ret |-> ~w.raised, file |-> w.file, parent |-> TRUE]

----------------------------------------------------------------------------
(* The summaries the method is run on.                                     *)

MaxSpace == 22

ThroughputValues == {0, 5, 10, 49, 50, 70}

SuccessRateValues == {0, 985, 989, 990, 1000}

QosMetricsSet ==
    { [throughput |-> t, success_rate |-> r] :
        t \in ThroughputValues, r \in SuccessRateValues }
    \cup { [throughput |-> t] : t \in ThroughputValues }
    \cup { [success_rate |-> r] : r \in SuccessRateValues }

Disks ==
    [parent : BOOLEAN, mkdir : BOOLEAN, writable : BOOLEAN, space : 0..MaxSpace]

QosInit ==
    /\ qosMetrics \in QosMetricsSet
    /\ qosDisk \in Disks
    /\ qosOut \in {AbsentFile, OldFile}
    /\ (~qosDisk.parent => qosOut = AbsentFile)
    /\ qosRet = "none"
    /\ qosPc = "ready"
    /\ SrtIdle
    /\ RepIdle
    /\ BatchIdle
    /\ PlotIdle

WriteSummary ==
    /\ qosPc = "ready"
    /\ LET r == GenerateSummaryReport(qosMetrics, qosOut, qosDisk)
       IN  /\ qosRet' = r.ret
           /\ qosOut' = r.file
           /\ qosDisk' = [qosDisk EXCEPT !.parent = r.parent]
    /\ qosPc' = "done"
    /\ UNCHANGED qosMetrics
    /\ UNCHANGED <<srtVars, repVars, batchVars, plotVars>>

QosNext == WriteSummary

SpecQos == QosInit /\ [][QosNext]_vars

----------------------------------------------------------------------------
(* HTMLTranscriptionReporter._parse_srt_file                               *)

\* content.strip().split('\n\n')
SrtBlocks(content) == Split(Strip(content), <<NL, NL>>)

\* block.strip().split('\n')
BlockLines(block) == Split(Strip(block), <<NL>>)

\* A mutation of the length test: more than three lines asked for.
QualifiesMoreThanThree(lines) == Len(lines) > 3

\* if len(lines) >= 3
Qualifies(lines) == Len(lines) >= 3

\* A mutation of the text join: only the third line is kept.
SegmentTextThirdLineOnly(lines) == lines[3]

\* ' '.join(lines[2:])
SegmentText(lines) == Join(SubSeq(lines, 3, Len(lines)), <<" ">>)

\* The dictionary appended for a qualifying block.
MakeSegment(lines) ==
    [index |-> lines[1], timestamps |-> lines[2], text |-> SegmentText(lines)]

\* The loop over the blocks, in file order.
RECURSIVE SegmentsOf(_)
SegmentsOf(blocks) ==
    IF blocks = <<>> THEN <<>>
    ELSE LET lines == BlockLines(Head(blocks))
         IN  (IF Qualifies(lines) THEN <<MakeSegment(lines)>> ELSE <<>>)
             \o SegmentsOf(Tail(blocks))

\* The whole method: the segments returned and the level it logged at. An
\* open or decode failure is caught, logged as an error, and [] returned.
ParseSrt(file) ==
    IF file.readable
    THEN [segments |-> SegmentsOf(SrtBlocks(file.content)), logged |-> "info"]
    ELSE [segments |-> <<>>, logged |-> "error"]

----------------------------------------------------------------------------
(* The subtitle files the parser is run on: every file of at most MaxLines *)
(* lines taken from SrtLineSet, the lines joined by newlines.              *)

MaxLines == 7

SrtLineSet == { <<>>, <<" ">>, <<"a">>, <<" ", "b", " ">> }

SrtContents ==
    { Join(ls, <<NL>>) : ls \in UNION { [1..n -> SrtLineSet] : n \in 0..MaxLines } }

SrtFiles ==
    { [readable |-> TRUE, content |-> c] : c \in SrtContents }
    \cup { [readable |-> FALSE, content |-> <<>>] }

SrtInit ==
    /\ srtFile \in SrtFiles
    /\ segments = <<>>
    /\ srtLogged = "none"
    /\ srtPc = "ready"
    /\ QosIdle
    /\ RepIdle
    /\ BatchIdle
    /\ PlotIdle

ParseSrtFile ==
    /\ srtPc = "ready"
    /\ LET r == ParseSrt(srtFile)
       IN  /\ segments' = r.segments
           /\ srtLogged' = r.logged
    /\ srtPc' = "done"
    /\ UNCHANGED srtFile
    /\ UNCHANGED <<qosVars, repVars, batchVars, plotVars>>

SrtNext == ParseSrtFile

SpecSrt == SrtInit /\ [][SrtNext]_vars

----------------------------------------------------------------------------
(* HTMLTranscriptionReporter: metrics, images, template, generate_report.  *)
(* CPU and memory samples are percentages, energy samples thousandths of a *)
(* kWh; a formatted value is a record of its kind and digits.              *)

NoneValue == [kind |-> "None"]

NA == [kind |-> "N/A"]

\* _read_metrics_csv: None for a file that is not there, and None (after an
\* error is logged) when pandas.read_csv raises, as it does on a zero-byte
\* file; else the frame, which has no rows for a header-only file.
ReadMetricsCsv(csv) ==
    IF ~csv.exists THEN NoneValue
    ELSE IF ~csv.parses THEN NoneValue
    ELSE [kind |-> "DataFrame", columns |-> csv.columns, rows |-> csv.rows]

RECURSIVE SumSeq(_)
SumSeq(q) == IF q = <<>> THEN 0 ELSE Head(q) + SumSeq(Tail(q))

\* num/den rounded to an integer, ties to even (what :.1f does to a mean
\* that is exact in binary).
RoundHalfEven(num, den) ==
    LET q == num \div den
        r == num % den
    IN  IF 2 * r < den THEN q
        ELSE IF 2 * r > den THEN q + 1
        ELSE IF q % 2 = 0 THEN q ELSE q + 1

\* f"{df[col].mean():.1f}%": KeyError without the column, nan% without rows.
FormatMeanPercent(df, col) ==
    IF col \notin df.columns THEN [raised |-> TRUE, value |-> NA]
    ELSE IF df.rows = <<>> THEN [raised |-> FALSE, value |-> [kind |-> "nan%"]]
    ELSE [raised |-> FALSE,
          value |-> [kind |-> "percent",
                     tenths |-> RoundHalfEven(10 * SumSeq(df.rows), Len(df.rows))]]

\* ... if cpu_df is not None else 'N/A' (and the same for memory_df)
AverageMetric(df, col) ==
    IF df # NoneValue THEN FormatMeanPercent(df, col)
    ELSE [raised |-> FALSE, value |-> NA]

\* f"{power_df['Energy_kWh'].iloc[-1]:.3f} kWh"
\*     if power_df is not None and len(power_df) > 0 else 'N/A'
EnergyMetric(df) ==
    IF df # NoneValue /\ Len(df.rows) > 0
    THEN IF "Energy_kWh" \notin df.columns THEN [raised |-> TRUE, value |-> NA]
         ELSE [raised |-> FALSE,
               value |-> [kind |-> "kWh", thousandths |-> df.rows[Len(df.rows)]]]
    ELSE [raised |-> FALSE, value |-> NA]

\* The metrics dictionary: the three placeholders, then the three computed
\* entries; an exception in one of them leaves the dictionary unbuilt.
ComputeMetrics(cpu_df, memory_df, power_df) ==
    LET c == AverageMetric(cpu_df, "CPU_Usage_Percent")
        m == AverageMetric(memory_df, "Memory_Usage_Percent")
        e == EnergyMetric(power_df)
    IN  [raised |-> c.raised \/ m.raised \/ e.raised,
         metrics |-> [audio_duration |-> NA, processing_time |-> NA,
                      throughput |-> NA, cpu_avg |-> c.value,
                      memory_avg |-> m.value, energy_total |-> e.value]]

GraphNames == <<"cpu_usage.png", "memory_usage.png", "power_usage.png">>

\* The MIME type of a path's suffix, image/png by default.
MimeType(ext) ==
    IF ext = ".png" THEN "image/png"
    ELSE IF ext \in {".jpg", ".jpeg"} THEN "image/jpeg"
    ELSE IF ext = ".gif" THEN "image/gif"
    ELSE "image/png"

\* _image_to_base64: the data URI, or None when the file cannot be read.
ImageToBase64(image, name) ==
    IF image.readable
    THEN [kind |-> "data", mime |-> MimeType(".png"), base64_of |-> name]
    ELSE NoneValue

\* The loop over the three chart names: an entry for every file that
\* exists, whatever _image_to_base64 returned for it.
RECURSIVE LoadGraphs(_, _)
LoadGraphs(images, i) ==
    IF i > Len(GraphNames) THEN <<>>
    ELSE (IF images[i].exists
          THEN <<[name |-> GraphNames[i],
                  src |-> ImageToBase64(images[i], GraphNames[i])]>>
          ELSE <<>>)
         \o LoadGraphs(images, i + 1)

\* A mutation of the test on an entry: an img element for every entry.
IsEncodedAlways(entry) == TRUE

\* if base64_img
IsEncoded(entry) == entry.src # NoneValue

\* A mutation of the graphs test: the section is always rendered.
GraphsSectionAlways(graph_images) == TRUE

\* ... if graph_images else '': the dictionary is not empty.
GraphsSectionShown(graph_images) == graph_images # <<>>

\* A mutation of the segments test: the section is always rendered.
SegmentsSectionAlways(segs) == TRUE

\* ... if segments else ''
SegmentsSectionShown(segs) == segs # <<>>

\* The six cards of the metrics grid, in the template's order.
MetricsCards(metrics) ==
    << metrics.audio_duration, metrics.processing_time, metrics.throughput,
       metrics.cpu_avg, metrics.memory_avg, metrics.energy_total >>

\* _generate_html_template: the document, piece by piece in its order.
GenerateHtmlTemplate(title, transcription_text, segs, metadata, metrics, graph_images) ==
    << [piece |-> "head", title |-> title],
       [piece |-> "header", title |-> title, generated |-> "now"],
       [piece |-> "metrics", cards |-> MetricsCards(metrics)],
       [piece |-> "metadata", items |-> metadata],
       [piece |-> "transcription", text |-> transcription_text] >>
    \o (IF SegmentsSectionShown(segs)
        THEN <<[piece |-> "segments",
                items |-> [ i \in 1..Len(segs) |->
                              [timestamps |-> segs[i].timestamps,
                               text |-> segs[i].text] ]]>>
        ELSE <<>>)
    \o (IF GraphsSectionShown(graph_images)
        THEN <<[piece |-> "graphs",
                images |-> SelectSeq(graph_images, IsEncoded)]>>
        ELSE <<>>)
    \o << [piece |-> "script"] >>

\* The input files a call opens once the transcript has been found.
OptionalReads(dir) ==
    (IF dir.srt.exists THEN {"srt"} ELSE {})
    \cup (IF dir.cpu.exists THEN {"monitoring_cpu.csv"} ELSE {})
    \cup (IF dir.memory.exists THEN {"monitoring_memory.csv"} ELSE {})
    \cup (IF dir.power.exists THEN {"monitoring_power.csv"} ELSE {})

ImageReads(dir) == { GraphNames[i] : i \in { j \in 1..3 : dir.images[j].exists } }

\* A mutation of the early return: the output is opened before the test.
MissingTranscriptOpensOutput(prior) ==
    [ret |-> FALSE, raised |-> FALSE,
     file |-> [exists |-> TRUE, data |-> <<>>], reads |-> {}]

\* if not txt_file: logger.error(...); return False
MissingTranscript(prior) ==
    [ret |-> FALSE, raised |-> FALSE, file |-> prior, reads |-> {}]

\* An exception at a point of the body, with what had been read by then.
Raise(prior, reads) ==
    [ret |-> "none", raised |-> TRUE, file |-> prior, reads |-> reads]

\* The try block of generate_report.
ReportBody(audio_filename, dir, prior, disk) ==
    IF ~dir.txt.exists THEN MissingTranscript(prior)
    ELSE IF ~dir.txt.decodable THEN Raise(prior, {"txt"})
    ELSE
    LET segs == IF dir.srt.exists THEN ParseSrt(dir.srt.file).segments ELSE <<>>
        m == ComputeMetrics(ReadMetricsCsv(dir.cpu), ReadMetricsCsv(dir.memory),
                            ReadMetricsCsv(dir.power))
        read1 == {"txt"} \cup OptionalReads(dir)
    IN  IF m.raised THEN Raise(prior, read1)
        ELSE
        LET html == GenerateHtmlTemplate(
                        [report_of |-> audio_filename], dir.txt.text, segs,
                        [filename |-> audio_filename, model |-> "small",
                         language |-> "fr", date |-> "now"],
                        m.metrics, LoadGraphs(dir.images, 1))
            w == WriteFile(prior, html, disk)
            read2 == read1 \cup ImageReads(dir)
        IN  IF w.raised
            THEN [ret |-> "none", raised |-> TRUE, file |-> w.file, reads |-> read2]
            ELSE [ret |-> TRUE, raised |-> FALSE, file |-> w.file, reads |-> read2]

\* A mutation of the handler: nothing is caught.
CatchNothing(outcome) == outcome

\* except Exception as e: logger.error(...); return False
CatchException(outcome) ==
    IF outcome.raised THEN [outcome EXCEPT !.ret = FALSE, !.raised = FALSE]
    ELSE outcome

\* generate_report
GenerateReport(audio_filename, dir, prior, disk) ==
    CatchException(ReportBody(audio_filename, dir, prior, disk))

----------------------------------------------------------------------------
(* The directories and devices generate_report is run on.                  *)

TxtFiles ==
    { TxtAbsent,
      [exists |-> TRUE, decodable |-> FALSE, text |-> <<>>],
      [exists |-> TRUE, decodable |-> TRUE, text |-> <<"B", "o", "n", "j", "o", "u", "r">>] }

SrtSample == <<"1", NL, "t", NL, "u", NL, "v", NL, NL, "2", NL, "t">>

\* A subtitle file whose only block has two lines.
SrtUnqualified == <<"1", NL, "t">>

SrtEntries ==
    { SrtAbsent,
      [exists |-> TRUE, file |-> [readable |-> FALSE, content |-> <<>>]],
      [exists |-> TRUE, file |-> [readable |-> TRUE, content |-> SrtUnqualified]],
      [exists |-> TRUE, file |-> [readable |-> TRUE, content |-> SrtSample]] }

CsvFiles(col) ==
    { CsvAbsent,
      [exists |-> TRUE, parses |-> FALSE, columns |-> {}, rows |-> <<>>],
      [exists |-> TRUE, parses |-> TRUE, columns |-> {"Timestamp", col}, rows |-> <<>>],
      [exists |-> TRUE, parses |-> TRUE, columns |-> {"Timestamp", col},
       rows |-> <<10, 20, 30>>],
      [exists |-> TRUE, parses |-> TRUE, columns |-> {"Timestamp"},
       rows |-> <<10, 20, 30>>] }

ImageFiles ==
    { ImageAbsent,
      [exists |-> TRUE, readable |-> FALSE],
      [exists |-> TRUE, readable |-> TRUE] }

Dirs ==
    [txt : TxtFiles, srt : SrtEntries,
     cpu : CsvFiles("CPU_Usage_Percent"),
     memory : CsvFiles("Memory_Usage_Percent"),
     power : CsvFiles("Energy_kWh"),
     images : [1..3 -> ImageFiles]]

\* The longest document has eight pieces.
ReportSpace == 8

ShortSpace == 4

\* The devices of the output path. __init__ has created output_dir, the
\* parent of the default path; the parent of an output_file the caller
\* names may be missing, on a device where it could be created (mkdir) or
\* not.
ReportDisks ==
    { [parent |-> TRUE, mkdir |-> FALSE, writable |-> TRUE, space |-> ReportSpace],
      [parent |-> TRUE, mkdir |-> FALSE, writable |-> TRUE, space |-> ShortSpace],
      [parent |-> TRUE, mkdir |-> FALSE, writable |-> FALSE, space |-> ReportSpace],
      [parent |-> FALSE, mkdir |-> FALSE, writable |-> TRUE, space |-> ReportSpace],
      [parent |-> FALSE, mkdir |-> TRUE, writable |-> TRUE, space |-> ReportSpace] }

RepInit ==
    /\ repDir \in Dirs
    /\ repDisk \in ReportDisks
    /\ repPrior \in {AbsentFile, OldFile}
    /\ (~repDisk.parent => repPrior = AbsentFile)
    /\ repOut = repPrior
    /\ repRet = "none"
    /\ repReads = {}
    /\ repPc = "ready"
    /\ SrtIdle
    /\ QosIdle
    /\ BatchIdle
    /\ PlotIdle

CallGenerateReport ==
    /\ repPc = "ready"
    /\ LET r == GenerateReport("item", repDir, repOut, repDisk)
       IN  /\ repRet' = (IF r.raised THEN "raised" ELSE r.ret)
           /\ repOut' = r.file
           /\ repReads' = r.reads
    /\ repPc' = "done"
    /\ UNCHANGED <<repDir, repDisk, repPrior>>
    /\ UNCHANGED <<srtVars, qosVars, batchVars, plotVars>>

RepNext == CallGenerateReport

Spec == RepInit /\ [][RepNext]_vars

----------------------------------------------------------------------------
(* A batch: generate_report called for one item after the other, each with *)
(* its own directory and the default output path of its name.              *)

MaxItems == 2

ItemName(k) == <<"item", k>>

\* self.output_dir / f"{audio_filename}_report.html"
OutputPath(k) == <<"output/reports", ItemName(k), "_report.html">>

ReadableTxt ==
    [exists |-> TRUE, decodable |-> TRUE, text |-> <<"B", "o", "n", "j", "o", "u", "r">>]

GoodDir ==
    [EmptyDir EXCEPT
        !.txt = ReadableTxt,
        !.srt = [exists |-> TRUE, file |-> [readable |-> TRUE, content |-> SrtSample]],
        !.cpu = [exists |-> TRUE, parses |-> TRUE,
                 columns |-> {"Timestamp", "CPU_Usage_Percent"}, rows |-> <<10, 20, 30>>],
        !.images = <<[exists |-> TRUE, readable |-> TRUE], ImageAbsent, ImageAbsent>>]

\* One directory per way a call can go wrong, and one where nothing does:
\* no directory at all, an undecodable transcript, a malformed CSV, a CSV
\* without its column, an unreadable image.
BatchDirs ==
    { EmptyDir,
      [GoodDir EXCEPT !.txt = [exists |-> TRUE, decodable |-> FALSE, text |-> <<>>]],
      [GoodDir EXCEPT !.cpu = [exists |-> TRUE, parses |-> FALSE,
                               columns |-> {}, rows |-> <<>>]],
      [GoodDir EXCEPT !.cpu = [exists |-> TRUE, parses |-> TRUE,
                               columns |-> {"Timestamp"}, rows |-> <<10, 20, 30>>]],
      [GoodDir EXCEPT !.images = <<[exists |-> TRUE, readable |-> FALSE],
                                   ImageAbsent, ImageAbsent>>],
      GoodDir }

BatchDisks == { d \in ReportDisks : d.parent }

BatchItemSet == [dir : BatchDirs, disk : BatchDisks, prior : {AbsentFile, OldFile}]

\* Where the report of item k lies when an earlier run left one.
EarlierReportPath(k) == <<"output/reports", ItemName(k), "_report.html">>

BatchPaths == { EarlierReportPath(k) : k \in 1..MaxItems }

BatchInit ==
    /\ batchItems \in [1..MaxItems -> BatchItemSet]
    /\ batchFs = [ p \in BatchPaths |->
                     batchItems[CHOOSE k \in 1..MaxItems : p = EarlierReportPath(k)].prior ]
    /\ batchResults = <<>>
    /\ batchAborted = FALSE
    /\ SrtIdle
    /\ QosIdle
    /\ RepIdle
    /\ PlotIdle

\* The caller's next call: the item after the last one that returned. An
\* exception that leaves generate_report ends the caller's loop.
CallNextItem ==
    /\ ~batchAborted
    /\ Len(batchResults) < Len(batchItems)
    /\ LET k == Len(batchResults) + 1
           r == GenerateReport(ItemName(k), batchItems[k].dir,
                               batchFs[OutputPath(k)], batchItems[k].disk)
       IN  /\ batchFs' = [batchFs EXCEPT ![OutputPath(k)] = r.file]
           /\ IF r.raised
              THEN batchAborted' = TRUE /\ UNCHANGED batchResults
              ELSE batchResults' = Append(batchResults, r.ret) /\ UNCHANGED batchAborted
    /\ UNCHANGED batchItems
    /\ UNCHANGED <<srtVars, qosVars, repVars, plotVars>>

BatchNext == CallNextItem

SpecBatch == BatchInit /\ [][BatchNext]_vars

----------------------------------------------------------------------------
(* QoSReporter.plot_cpu_usage and plot_memory_usage, statement by          *)
(* statement, over pyplot's figure registry, which is one per process.     *)

\* pd.read_csv as the chart methods call it, with no handler of its own: it
\* raises on a file that is not there and on a zero-byte file.
ReadCsv(csv) ==
    IF ~csv.exists \/ ~csv.parses
    THEN [raised |-> TRUE, df |-> NoneValue]
    ELSE [raised |-> FALSE,
          df |-> [kind |-> "DataFrame", columns |-> csv.columns, rows |-> csv.rows]]

\* A mutation of the emptiness test: no frame is taken for empty.
IsEmptyFrameNever(df) == FALSE

\* df.empty
IsEmptyFrame(df) == df.rows = <<>> \/ df.columns = {}

\* The column each method plots.
ChartColumn(method) ==
    IF method = "plot_cpu_usage" THEN "CPU_Usage_Percent" ELSE "Memory_Usage_Percent"

\* df[col].mean() as the legend shows it (:.1f), nan for no rows.
MeanLabel(rows) ==
    IF rows = <<>> THEN [kind |-> "nan"]
    ELSE [kind |-> "percent", tenths |-> RoundHalfEven(10 * SumSeq(rows), Len(rows))]

\* What a method draws: the series with its mean line, and for memory the
\* alert line and, when the two GB columns are there, the second panel.
Drawing(method, df) ==
    IF method = "plot_cpu_usage"
    THEN << [plot |-> "CPU_Usage_Percent", data |-> df.rows, mean |-> MeanLabel(df.rows)] >>
    ELSE << [plot |-> "Memory_Usage_Percent", data |-> df.rows, mean |-> MeanLabel(df.rows)],
            [plot |-> "alert_threshold"] >>
         \o (IF {"Memory_Used_GB", "Memory_Total_GB"} \subseteq df.columns
             THEN << [plot |-> "Memory_Used_GB"] >>
             ELSE <<>>)

\* plt.figure(...) and plt.subplots(...): a new Figure, registered with
\* pyplot and made the current one.
NewFigure(figures, open) ==
    [figures |-> Append(figures, <<>>),
     open |-> Append(open, Len(figures) + 1),
     id |-> Len(figures) + 1]

\* plt.gcf(), behind plt.plot, plt.tight_layout and plt.savefig: the current
\* figure, a new one when none is open.
Gcf(figures, open) ==
    IF open = <<>> THEN NewFigure(figures, open)
    ELSE [figures |-> figures, open |-> open, id |-> open[Len(open)]]

\* plt.close(): the current figure leaves the registry, if there is one.
CloseCurrent(open) ==
    IF open = <<>> THEN <<>> ELSE SubSeq(open, 1, Len(open) - 1)

----------------------------------------------------------------------------
(* Two chart calls for two items, each with its own CSV and its own output *)
(* path, their statements interleaved in every order.                      *)

Invocations == {1, 2}

\* The samples of each item's log, told apart by their values.
SeriesOf(t) == IF t = 1 THEN <<10, 20, 30>> ELSE <<40, 50>>

PlotCsvFiles(t, col) ==
    { CsvAbsent,
      [exists |-> TRUE, parses |-> FALSE, columns |-> {}, rows |-> <<>>],
      [exists |-> TRUE, parses |-> TRUE, columns |-> {"Timestamp", col}, rows |-> <<>>],
      [exists |-> TRUE, parses |-> TRUE, columns |-> {"Timestamp", col},
       rows |-> SeriesOf(t)],
      [exists |-> TRUE, parses |-> TRUE,
       columns |-> {"Timestamp", col, "Memory_Used_GB", "Memory_Total_GB"},
       rows |-> SeriesOf(t)],
      [exists |-> TRUE, parses |-> TRUE, columns |-> {"Timestamp"},
       rows |-> SeriesOf(t)] }

\* The devices of an image's output path: savefig creates no directory.
PlotDisks ==
    { [parent |-> TRUE, mkdir |-> FALSE, writable |-> TRUE, space |-> 1],
      [parent |-> TRUE, mkdir |-> FALSE, writable |-> FALSE, space |-> 1],
      [parent |-> FALSE, mkdir |-> FALSE, writable |-> TRUE, space |-> 1] }

PlotCallSet(t) ==
    { c \in [method : {"plot_cpu_usage", "plot_memory_usage"},
             csv : PlotCsvFiles(t, "CPU_Usage_Percent")
                   \cup PlotCsvFiles(t, "Memory_Usage_Percent"),
             disk : PlotDisks,
             prior : {AbsentFile, OldFile}] :
        /\ c.csv \in PlotCsvFiles(t, ChartColumn(c.method))
        /\ (~c.disk.parent => c.prior = AbsentFile) }

PlotInit ==
    /\ plotCalls \in { f \in [Invocations -> UNION { PlotCallSet(t) : t \in Invocations }] :
                         \A t \in Invocations : f[t] \in PlotCallSet(t) }
    /\ plotPc = [t \in Invocations |-> "ready"]
    /\ plotDf = [t \in Invocations |-> NoneValue]
    /\ plotFig = [t \in Invocations |-> 0]
    /\ pltFigures = <<>>
    /\ pltOpen = <<>>
    /\ plotOut = [t \in Invocations |-> plotCalls[t].prior]
    /\ plotRet = [t \in Invocations |-> "none"]
    /\ SrtIdle
    /\ QosIdle
    /\ RepIdle
    /\ BatchIdle

\* return False, from the emptiness test or from the handler.
ReturnFalse(t) ==
    /\ plotRet' = [plotRet EXCEPT ![t] = FALSE]
    /\ plotPc' = [plotPc EXCEPT ![t] = "done"]

\* df = pd.read_csv(...); if df.empty: return False
PlotReadCsv(t) ==
    /\ plotPc[t] = "ready"
    /\ LET r == ReadCsv(plotCalls[t].csv)
       IN  IF r.raised \/ IsEmptyFrame(r.df)
           THEN ReturnFalse(t) /\ UNCHANGED plotDf
           ELSE /\ plotDf' = [plotDf EXCEPT ![t] = r.df]
                /\ plotPc' = [plotPc EXCEPT ![t] = "figure"]
                /\ UNCHANGED plotRet
    /\ UNCHANGED <<plotCalls, plotFig, pltFigures, pltOpen, plotOut>>
    /\ UNCHANGED <<srtVars, qosVars, repVars, batchVars>>

\* plt.figure(figsize=...)  /  fig, (ax1, ax2) = plt.subplots(...)
PlotCreateFigure(t) ==
    /\ plotPc[t] = "figure"
    /\ LET n == NewFigure(pltFigures, pltOpen)
       IN  /\ pltFigures' = n.figures
           /\ pltOpen' = n.open
           /\ plotFig' = [plotFig EXCEPT ![t] = n.id]
    /\ plotPc' = [plotPc EXCEPT ![t] = "draw"]
    /\ UNCHANGED <<plotCalls, plotDf, plotOut, plotRet>>
    /\ UNCHANGED <<srtVars, qosVars, repVars, batchVars>>

\* The drawing statements. df[col] raises KeyError without the column, before
\* anything is drawn. plot_cpu_usage draws through plt.plot, plt.title, ...,
\* on pyplot's current figure; plot_memory_usage draws through ax1 and ax2,
\* on the figure it created.
PlotSeries(t) ==
    /\ plotPc[t] = "draw"
    /\ LET method == plotCalls[t].method
       IN  IF ChartColumn(method) \notin plotDf[t].columns
           THEN ReturnFalse(t) /\ UNCHANGED <<pltFigures, pltOpen>>
           ELSE /\ IF method = "plot_cpu_usage"
                   THEN LET g == Gcf(pltFigures, pltOpen)
                        IN  /\ pltFigures' =
                                  [g.figures EXCEPT ![g.id] = @ \o Drawing(method, plotDf[t])]
                            /\ pltOpen' = g.open
                   ELSE /\ pltFigures' =
                              [pltFigures EXCEPT ![plotFig[t]] = @ \o Drawing(method, plotDf[t])]
                        /\ UNCHANGED pltOpen
                /\ plotPc' = [plotPc EXCEPT ![t] = "save"]
                /\ UNCHANGED plotRet
    /\ UNCHANGED <<plotCalls, plotDf, plotFig, plotOut>>
    /\ UNCHANGED <<srtVars, qosVars, repVars, batchVars>>

\* plt.tight_layout(); plt.savefig(output_file, ...): pyplot's current figure
\* is written to the call's output path.
PlotSavefig(t) ==
    /\ plotPc[t] = "save"
    /\ LET g == Gcf(pltFigures, pltOpen)
           w == WriteFile(plotOut[t], <<g.figures[g.id]>>, plotCalls[t].disk)
       IN  /\ pltFigures' = g.figures
           /\ pltOpen' = g.open
           /\ plotOut' = [plotOut EXCEPT ![t] = w.file]
           /\ IF w.raised
              THEN ReturnFalse(t)
              ELSE /\ plotPc' = [plotPc EXCEPT ![t] = "close"]
                   /\ UNCHANGED plotRet
    /\ UNCHANGED <<plotCalls, plotDf, plotFig>>
    /\ UNCHANGED <<srtVars, qosVars, repVars, batchVars>>

\* plt.close(); return True
PlotClose(t) ==
    /\ plotPc[t] = "close"
    /\ pltOpen' = CloseCurrent(pltOpen)
    /\ plotRet' = [plotRet EXCEPT ![t] = TRUE]
    /\ plotPc' = [plotPc EXCEPT ![t] = "done"]
    /\ UNCHANGED <<plotCalls, plotDf, plotFig, pltFigures, plotOut>>
    /\ UNCHANGED <<srtVars, qosVars, repVars, batchVars>>

PlotNext ==
    \E t \in Invocations :
        \/ PlotReadCsv(t)
        \/ PlotCreateFigure(t)
        \/ PlotSeries(t)
        \/ PlotSavefig(t)
        \/ PlotClose(t)

SpecPlot == PlotInit /\ [][PlotNext]_vars

----------------------------------------------------------------------------
(* The reading of a subtitle file the claims are stated in: the file's     *)
(* lines, grouped into runs of consecutive non-empty lines (a blank line   *)
(* ends a run), each run trimmed at its two ends.                          *)

RECURSIVE FileLines(_)
FileLines(s) ==
    IF \A i \in 1..Len(s) : s[i] # NL THEN <<s>>
    ELSE LET p == CHOOSE i \in 1..Len(s) :
                      s[i] = NL /\ \A j \in 1..(i - 1) : s[j] # NL
         IN  <<SubSeq(s, 1, p - 1)>> \o FileLines(SubSeq(s, p + 1, Len(s)))

RECURSIVE RunsAcc(_, _)
RunsAcc(lines, cur) ==
    LET closed == IF cur = <<>> THEN <<>> ELSE <<cur>>
    IN  IF lines = <<>> THEN closed
        ELSE IF Head(lines) = <<>> THEN closed \o RunsAcc(Tail(lines), <<>>)
        ELSE RunsAcc(Tail(lines), Append(cur, Head(lines)))

LineRuns(content) == RunsAcc(FileLines(content), <<>>)

IsBlankLine(l) == \A i \in 1..Len(l) : l[i] \in {" ", "\t"}

NonBlankCount(run) == Cardinality({ i \in 1..Len(run) : ~IsBlankLine(run[i]) })

WithoutLeadingSpace(l) ==
    LET p == CHOOSE i \in 1..Len(l) :
                 l[i] \notin {" ", "\t"} /\ \A j \in 1..(i - 1) : l[j] \in {" ", "\t"}
    IN  SubSeq(l, p, Len(l))

WithoutTrailingSpace(l) ==
    LET p == CHOOSE i \in 1..Len(l) :
                 l[i] \notin {" ", "\t"} /\ \A j \in (i + 1)..Len(l) : l[j] \in {" ", "\t"}
    IN  SubSeq(l, 1, p)

\* The run from its first to its last non-blank line, the first line without
\* its leading and the last without its trailing whitespace; <<>> for a run
\* of blank lines only. Lines in between are kept as they are.
TrimmedRun(run) ==
    LET nb == { i \in 1..Len(run) : ~IsBlankLine(run[i]) }
    IN  IF nb = {} THEN <<>>
        ELSE LET lo == CHOOSE i \in nb : \A j \in nb : i <= j
                 hi == CHOOSE i \in nb : \A j \in nb : j <= i
             IN  [ k \in 1..(hi - lo + 1) |->
                     LET l  == run[lo + k - 1]
                         l1 == IF k = 1 THEN WithoutLeadingSpace(l) ELSE l
                     IN  IF k = hi - lo + 1 THEN WithoutTrailingSpace(l1) ELSE l1 ]

QualifyingRun(run) == Len(TrimmedRun(run)) >= 3

QualifyingRuns(content) == SelectSeq(LineRuns(content), QualifyingRun)

RECURSIVE SpacedText(_)
SpacedText(ls) ==
    IF Len(ls) = 1 THEN ls[1] ELSE ls[1] \o <<" ">> \o SpacedText(Tail(ls))

ExpectedSegment(run) ==
    LET t == TrimmedRun(run)
    IN  [index |-> t[1], timestamps |-> t[2],
         text |-> SpacedText(SubSeq(t, 3, Len(t)))]

SrtParsed == srtPc = "done" /\ srtFile.readable

----------------------------------------------------------------------------
(* C7, as stated: a segment is produced only for a block with at least     *)
(* three lines that are non-empty after trimming, so a file has at most as *)
(* many segments as it has runs with three non-blank lines.                *)
C7_OnlyThreeNonBlankLines ==
    SrtParsed =>
        Len(segments) <=
            Cardinality({ i \in 1..Len(LineRuns(srtFile.content)) :
                            NonBlankCount(LineRuns(srtFile.content)[i]) >= 3 })

(* C7, amended: a block is accepted if and only if, once the block as a    *)
(* whole is trimmed, it has at least three lines (a whitespace-only line   *)
(* between two others counts); the file has one segment per such block,    *)
(* and with no such block the result is the empty list, logged at info     *)
(* level and not as an error.                                              *)
C7_ThreeLinesOfTrimmedBlock ==
    SrtParsed =>
        /\ Len(segments) = Len(QualifyingRuns(srtFile.content))
        /\ (QualifyingRuns(srtFile.content) = <<>>
               => segments = <<>> /\ srtLogged = "info")

\* A block of three lines whose last is whitespace only is dropped, the
\* result is empty and nothing is logged as an error.
C7_Witness ==
    /\ SrtParsed
    /\ \E i \in 1..Len(LineRuns(srtFile.content)) :
          LET run == LineRuns(srtFile.content)[i]
          IN  Len(run) = 3 /\ IsBlankLine(run[3]) /\ ~IsBlankLine(run[1])
    /\ segments = <<>>
    /\ srtLogged = "info"

(* C8: a file with N qualifying blocks separated by blank lines parses to  *)
(* exactly N segments in file order; segment i has the first line of       *)
(* (trimmed) block i as index, its second line as timestamps and its lines *)
(* 3..k joined by single spaces as text.                                   *)
C8_SegmentsInSourceOrder ==
    SrtParsed =>
        LET q == QualifyingRuns(srtFile.content)
        IN  segments = [ i \in 1..Len(q) |-> ExpectedSegment(q[i]) ]

\* Two qualifying blocks, told apart by their index lines.
C8_Witness ==
    /\ SrtParsed
    /\ Len(segments) = 2
    /\ segments[1].index = <<"a">>
    /\ segments[2].index = <<"b", " ">>

----------------------------------------------------------------------------
(* The report as read back from the output file after a call.              *)

RepDone == repPc = "done"

\* The file holds a whole document, from its head to its closing script.
IsCompleteDocument(file) ==
    /\ file.exists
    /\ Len(file.data) >= 6
    /\ file.data[1] = [piece |-> "head", title |-> [report_of |-> "item"]]
    /\ file.data[Len(file.data)] = [piece |-> "script"]

HasPiece(file, name) ==
    \E i \in 1..Len(file.data) : file.data[i].piece = name

PieceOf(file, name) ==
    file.data[CHOOSE i \in 1..Len(file.data) : file.data[i].piece = name]

IsSegmentsPiece(p) == p.piece = "segments"

\* The cards of CPU average, memory average and total energy.
CardOf(file, metric) ==
    PieceOf(file, "metrics").cards[CASE metric = "cpu" -> 4
                                     [] metric = "memory" -> 5
                                     [] metric = "power" -> 6]

MetricNames == {"cpu", "memory", "power"}

ColumnOf(metric) ==
    CASE metric = "cpu" -> "CPU_Usage_Percent"
      [] metric = "memory" -> "Memory_Usage_Percent"
      [] metric = "power" -> "Energy_kWh"

CsvOf(metric) ==
    CASE metric = "cpu" -> repDir.cpu
      [] metric = "memory" -> repDir.memory
      [] metric = "power" -> repDir.power

HasRowsButNoColumn(metric) ==
    LET csv == CsvOf(metric)
    IN  csv.exists /\ csv.parses /\ csv.rows # <<>> /\ ColumnOf(metric) \notin csv.columns

IsValidCsv(metric) ==
    LET csv == CsvOf(metric)
    IN  csv.exists /\ csv.parses /\ csv.rows # <<>> /\ ColumnOf(metric) \in csv.columns

HasNoDataRows(metric) ==
    LET csv == CsvOf(metric)
    IN  csv.exists /\ (~csv.parses \/ csv.rows = <<>>)

\* The transcript can be read and the output written in full.
CallCanSucceed ==
    /\ repDir.txt.exists /\ repDir.txt.decodable
    /\ repDisk.parent /\ repDisk.writable /\ repDisk.space >= 8

(* C1: with a monitoring CSV that has rows but not its expected column,    *)
(* the call renders that metric as N/A, computes the metrics of the valid  *)
(* CSVs, writes the report and returns True.                               *)
C1_MissingColumnIsNotAvailable ==
    (RepDone /\ CallCanSucceed /\ \E m \in MetricNames : HasRowsButNoColumn(m)) =>
        /\ repRet = TRUE
        /\ IsCompleteDocument(repOut)
        /\ \A m \in MetricNames :
              /\ HasRowsButNoColumn(m) => CardOf(repOut, m) = NA
              /\ IsValidCsv(m) => CardOf(repOut, m).kind \in {"percent", "kWh"}

(* C2: when the call returns False, the output file holds the complete     *)
(* document or is as it was before the call; never a truncated or partly   *)
(* written file.                                                           *)
C2_NoPartialOutputOnFailure ==
    (RepDone /\ repRet = FALSE) =>
        (IsCompleteDocument(repOut) \/ repOut = repPrior)

(* C3: the document has a graphs section if and only if at least one chart *)
(* image has an encoding (its file exists and could be read).              *)
C3_GraphsSectionIffSomeImageEncoded ==
    (RepDone /\ repRet = TRUE) =>
        (HasPiece(repOut, "graphs")
            <=> \E i \in 1..3 : repDir.images[i].exists /\ repDir.images[i].readable)

(* C4: a monitoring CSV that exists without data rows (header only, or     *)
(* zero bytes) has its metric rendered as N/A, as for an absent file.      *)
C4_NoRowsIsNotAvailable ==
    (RepDone /\ repRet = TRUE) =>
        \A m \in MetricNames : HasNoDataRows(m) => CardOf(repOut, m) = NA

(* C5: without a transcript text file the call returns False, leaves the   *)
(* output path as it was and has opened none of the subtitle, log or image *)
(* files, whichever of them are present.                                   *)
C5_NoTranscriptFailsBeforeAnyRead ==
    (RepDone /\ ~repDir.txt.exists) =>
        /\ repRet = FALSE
        /\ repOut = repPrior
        /\ repReads = {}

\* No transcript, with a subtitle file, the three logs and a chart present
\* and no output file before the call: False, and still no output file.
C5_Witness ==
    /\ RepDone
    /\ ~repDir.txt.exists
    /\ repDir.srt.exists /\ repDir.srt.file.readable
    /\ IsValidCsv("cpu") /\ IsValidCsv("memory") /\ IsValidCsv("power")
    /\ repDir.images[1].exists /\ repDir.images[1].readable
    /\ repPrior = AbsentFile
    /\ repDisk.writable /\ repDisk.parent
    /\ repRet = FALSE
    /\ ~repOut.exists
    /\ repReads = {}

(* C11: the document has a segments section if and only if the segment     *)
(* list is non-empty, that is if and only if a subtitle file is there, can *)
(* be read and has a qualifying block; the section then holds one entry    *)
(* per qualifying block. Without a subtitle file, with one that cannot be  *)
(* read, or with one that has no qualifying block, there is no section.    *)
C11_SegmentsSectionIffSegments ==
    (RepDone /\ repRet = TRUE) =>
        LET q == IF repDir.srt.exists /\ repDir.srt.file.readable
                 THEN QualifyingRuns(repDir.srt.file.content)
                 ELSE <<>>
        IN  /\ HasPiece(repOut, "segments") <=> q # <<>>
            /\ HasPiece(repOut, "segments")
                   => Len(PieceOf(repOut, "segments").items) = Len(q)
            /\ Len(SelectSeq(repOut.data, IsSegmentsPiece)) <= 1

\* A report written from a subtitle file that has no qualifying block: no
\* segments section in it.
C11_Witness ==
    /\ RepDone
    /\ repRet = TRUE
    /\ repDir.srt.exists /\ repDir.srt.file.readable
    /\ repDir.srt.file.content = SrtUnqualified
    /\ IsCompleteDocument(repOut)
    /\ ~HasPiece(repOut, "segments")

\* Only the transcript is there: no subtitle file, no log, no chart.
OnlyTranscript ==
    /\ repDir.txt.exists /\ repDir.txt.decodable
    /\ ~repDir.srt.exists
    /\ ~repDir.cpu.exists /\ ~repDir.memory.exists /\ ~repDir.power.exists
    /\ \A i \in 1..3 : ~repDir.images[i].exists

(* C12: with the transcript alone in the directory (and an output path     *)
(* that can be written), the call returns True and the file written is a   *)
(* complete document that holds the transcript text and a grid of six      *)
(* cards, audio duration, processing time, throughput, CPU average, memory *)
(* average, total energy, all N/A, with no segments and no graphs section. *)
C12_TranscriptAloneGivesBareReport ==
    (RepDone /\ CallCanSucceed /\ OnlyTranscript) =>
        /\ repRet = TRUE
        /\ IsCompleteDocument(repOut)
        /\ PieceOf(repOut, "transcription").text = repDir.txt.text
        /\ PieceOf(repOut, "metrics").cards = <<NA, NA, NA, NA, NA, NA>>
        /\ ~HasPiece(repOut, "segments")
        /\ ~HasPiece(repOut, "graphs")

\* The report of a transcript alone, written over an older file.
C12_Witness ==
    /\ RepDone
    /\ OnlyTranscript
    /\ repPrior = OldFile
    /\ repRet = TRUE
    /\ Len(repOut.data) = 6
    /\ PieceOf(repOut, "transcription").text = <<"B", "o", "n", "j", "o", "u", "r">>

\* The img elements of the document, in its order.
EmbeddedImages(file) ==
    IF HasPiece(file, "graphs") THEN PieceOf(file, "graphs").images ELSE <<>>

\* The charts of the directory that are there and can be read, in the
\* order the call looks for them.
RECURSIVE ReadableCharts(_)
ReadableCharts(i) ==
    IF i > 3 THEN <<>>
    ELSE (IF repDir.images[i].exists /\ repDir.images[i].readable
          THEN <<GraphNames[i]>> ELSE <<>>)
         \o ReadableCharts(i + 1)

SomeChartUnreadable ==
    \E i \in 1..3 : repDir.images[i].exists /\ ~repDir.images[i].readable

(* C13: a chart image that is there but cannot be read does not make the   *)
(* call fail (it returns True whenever the transcript, the logs and the    *)
(* output path allow it), and the document has one img element, carrying   *)
(* a data URI, for each chart that could be read and none, nor any         *)
(* placeholder, for the one that could not.                                *)
C13_UnreadableImageIsOmitted ==
    (RepDone /\ SomeChartUnreadable) =>
        /\ (CallCanSucceed /\ ~\E m \in MetricNames : HasRowsButNoColumn(m))
              => repRet = TRUE
        /\ repRet = TRUE =>
              /\ Len(EmbeddedImages(repOut)) = Len(ReadableCharts(1))
              /\ \A k \in 1..Len(EmbeddedImages(repOut)) :
                    /\ EmbeddedImages(repOut)[k].name = ReadableCharts(1)[k]
                    /\ EmbeddedImages(repOut)[k].src.kind = "data"

\* The CPU chart cannot be read, the two others can: True, and the two
\* others are in the document.
C13_Witness ==
    /\ RepDone
    /\ repRet = TRUE
    /\ repDir.images[1].exists /\ ~repDir.images[1].readable
    /\ Len(EmbeddedImages(repOut)) = 2
    /\ EmbeddedImages(repOut)[1].name = "memory_usage.png"
    /\ EmbeddedImages(repOut)[2].name = "power_usage.png"

(* C14: when the parent directory of generate_report's output path does    *)
(* not exist yet and can be created, the call creates it and writes the    *)
(* report there: with a transcript that can be read, logs that can be      *)
(* evaluated and room for the document, it returns True and the file is    *)
(* the complete document.                                                  *)
C14_OutputDirectoryCreatedOnDemand ==
    (/\ RepDone
     /\ ~repDisk.parent /\ repDisk.mkdir /\ repDisk.writable /\ repDisk.space >= 8
     /\ repDir.txt.exists /\ repDir.txt.decodable
     /\ ~\E m \in MetricNames : HasRowsButNoColumn(m)) =>
        /\ repRet = TRUE
        /\ IsCompleteDocument(repOut)

----------------------------------------------------------------------------
(* C6: generate_report never raises: every call of a batch returns True or *)
(* False, and each item's result (the value returned and the file at its   *)
(* output path) is that of the call made alone, whatever calls failed      *)
(* before it.                                                              *)
C6_FailureDoesNotBlockNextItem ==
    /\ ~batchAborted
    /\ \A k \in 1..Len(batchResults) :
          LET alone == GenerateReport(ItemName(k), batchItems[k].dir,
                                      batchItems[k].prior, batchItems[k].disk)
          IN  /\ batchResults[k] \in BOOLEAN
              /\ batchResults[k] = alone.ret
              /\ batchFs[EarlierReportPath(k)] = alone.file

\* A first item that failed on a CSV without its column, then a second
\* item whose report was written.
C6_Witness ==
    /\ Len(batchResults) = 2
    /\ batchItems[1].dir.cpu.columns = {"Timestamp"}
    /\ batchResults[1] = FALSE
    /\ batchResults[2] = TRUE
    /\ batchFs[EarlierReportPath(2)].exists
    /\ Len(batchFs[EarlierReportPath(2)].data) = 8

----------------------------------------------------------------------------
(* The chart calls as seen from outside: what each returned, the file at   *)
(* its output path, and the figures pyplot still holds.                    *)

AllChartCallsReturned == \A t \in Invocations : plotPc[t] = "done"

OpenFigureCount == Len(pltOpen)

\* The call's log is there and has no data rows: zero bytes, or a header only.
SeriesIsEmpty(t) ==
    LET csv == plotCalls[t].csv
    IN  csv.exists /\ (~csv.parses \/ csv.rows = <<>>)

\* The call's log can be plotted: it is there, with rows and the column.
SeriesIsPlottable(t) ==
    LET csv == plotCalls[t].csv
    IN  csv.exists /\ csv.parses /\ csv.rows # <<>>
        /\ ChartColumn(plotCalls[t].method) \in csv.columns

CanSave(t) == plotCalls[t].disk.parent /\ plotCalls[t].disk.writable

\* The chart of the call's own log, as the method draws it.
OwnChart(t) ==
    LET c == plotCalls[t]
    IN  Drawing(c.method, [kind |-> "DataFrame", columns |-> c.csv.columns,
                           rows |-> c.csv.rows])

\* What the call gives when nothing else runs: True and the chart of its own
\* log at its output path, or False and the path as it was.
ResultAlone(t) ==
    IF SeriesIsPlottable(t) /\ CanSave(t)
    THEN [ret |-> TRUE, file |-> [exists |-> TRUE, data |-> <<OwnChart(t)>>]]
    ELSE [ret |-> FALSE, file |-> plotCalls[t].prior]

(* C15: every figure a chart call creates is closed before the call        *)
(* returns, on the success path and on every failure path: once the calls  *)
(* have returned, no figure is left open.                                  *)
C15_NoFigureLeftOpen ==
    AllChartCallsReturned => OpenFigureCount = 0

(* C16: two chart calls for two items with distinct output paths, run      *)
(* concurrently, give under every interleaving what they give one after    *)
(* the other: each returns what it returns alone and leaves at its output  *)
(* path the file it leaves alone.                                          *)
C16_ConcurrentCallsAsSequential ==
    AllChartCallsReturned =>
        \A t \in Invocations :
            /\ plotRet[t] = ResultAlone(t).ret
            /\ plotOut[t] = ResultAlone(t).file

(* C17: a chart call whose log has no data rows returns False, and the     *)
(* image at its output path is as it was before the call: none created,    *)
(* none overwritten.                                                       *)
C17_EmptySeriesWritesNothing ==
    \A t \in Invocations :
        (plotPc[t] = "done" /\ SeriesIsEmpty(t)) =>
            /\ plotRet[t] = FALSE
            /\ plotOut[t] = plotCalls[t].prior
            /\ plotFig[t] = 0

\* A header-only log and an older image at a path that can be written:
\* False, the older image untouched, while the other call saved its chart.
C17_Witness ==
    /\ AllChartCallsReturned
    /\ plotCalls[1].csv.parses /\ plotCalls[1].csv.rows = <<>>
    /\ CanSave(1)
    /\ plotCalls[1].prior = OldFile
    /\ plotRet[1] = FALSE
    /\ plotOut[1] = OldFile
    /\ plotRet[2] = TRUE

----------------------------------------------------------------------------
(* The QoS summary as read back from the output file.                      *)

QosWritten == qosPc = "done" /\ qosRet = TRUE

IsThroughputEvaluation(l) ==
    l.line \in {"throughput_small_met", "throughput_medium_met",
                "throughput_insufficient"}

IsSuccessEvaluation(l) == l.line \in {"success_rate_met", "success_rate_below"}

ThroughputEvaluations == SelectSeq(qosOut.data, IsThroughputEvaluation)

SuccessEvaluations == SelectSeq(qosOut.data, IsSuccessEvaluation)

(* C9: the throughput tiers are tested top to bottom, first match wins:    *)
(* 5x or more is the fast tier (small), else 1x or more the slow tier      *)
(* (medium), else insufficient; 0.5, 1.0, 4.9, 5.0, 7.0 give not met,      *)
(* slow, slow, fast, fast; exactly one of the three lines is written.      *)
C9_ThroughputTiers ==
    QosWritten =>
        LET t == MetricGet(qosMetrics, "throughput")
            e == ThroughputEvaluations
        IN  /\ Len(e) = 1
            /\ (t >= 50 => e[1].line = "throughput_small_met")
            /\ (t >= 10 /\ t < 50 => e[1].line = "throughput_medium_met")
            /\ (t < 10 => e[1].line = "throughput_insufficient")
            /\ (t = 5 => e[1].line = "throughput_insufficient")
            /\ (t \in {10, 49} => e[1].line = "throughput_medium_met")
            /\ (t \in {50, 70} => e[1].line = "throughput_small_met")

\* A summary written for 4.9x: the slow tier's line, just under the fast one.
C9_Witness ==
    /\ QosWritten
    /\ MetricGet(qosMetrics, "throughput") = 49
    /\ ThroughputEvaluations = <<[line |-> "throughput_medium_met"]>>

(* C10: every summary written holds exactly one throughput evaluation and  *)
(* exactly one success-rate evaluation; the success-rate line is decided   *)
(* by the success rate alone (met iff the rate is at least 0.99, else the  *)
(* rate as a percentage), whatever the throughput evaluation was.          *)
C10_BothEvaluationsAlwaysPrinted ==
    QosWritten =>
        LET r == MetricGet(qosMetrics, "success_rate")
        IN  /\ Len(ThroughputEvaluations) = 1
            /\ Len(SuccessEvaluations) = 1
            /\ SuccessEvaluations[1] =
                  IF r >= 990 THEN [line |-> "success_rate_met"]
                  ELSE [line |-> "success_rate_below", percent_tenths |-> r]

\* A summary whose throughput target is met in the fast tier and whose
\* success rate, 98.9 %, is reported as missed.
C10_Witness ==
    /\ QosWritten
    /\ MetricGet(qosMetrics, "throughput") >= 50
    /\ SuccessEvaluations =
          <<[line |-> "success_rate_below", percent_tenths |-> 989]>>

====
